---- MODULE Spec2Model ----
(***************************************************************************)
(* Model of the Xclipse 940 Vulkan layer.                                  *)
(*   layer_init.cpp      : layer identity, lifecycle interceptors,         *)
(*                         vkGetInstanceProcAddr / vkGetDeviceProcAddr,    *)
(*                         vkEnumerateInstanceLayerProperties              *)
(*   xclipse_wrapper.cpp : class Xclipse940Wrapper, the global g_wrapper   *)
(*                         and the exported intercepted entry points       *)
(*                                                                         *)
(* Pointers are tuples: <<"null">>, <<"wrapper", name>> for one of this    *)
(* layer's exported entry points, <<"next", r, h, name>> for the pointer   *)
(* the next-layer resolver r returns for (h, name).                        *)
(***************************************************************************)
EXTENDS Integers, Sequences, FiniteSets, TLC

VARIABLES
    g_layer_data,               \* layer_init.cpp:20  the one LayerData pair
    vkCreateInstance_original,  \* layer_init.cpp:23
    vkCreateDevice_original,    \* layer_init.cpp:24
    last,                       \* the last call the host made into layer_init.cpp, with its outcome
    pipeline_mutex_,            \* part_000:32  "free" or the thread holding it
    pipeline_cache_,            \* part_000:33  VkPipeline -> PipelineState
    device_context_,            \* part_000:34  <<>> (null) or <<DeviceContext>>
    features_initialized_,      \* part_000:35
    symbol_binding,             \* what the name vkXxx binds to at a call inside the wrapper
    pc,                         \* per thread: where its intercepted call stands
    frame,                      \* per thread: the arguments and locals of that call
    expected_store              \* the records the finished calls insert, taken one call at a time

initVars == <<g_layer_data, vkCreateInstance_original, vkCreateDevice_original>>
wrapperVars == <<pipeline_mutex_, pipeline_cache_, device_context_, features_initialized_,
                 symbol_binding, pc, frame, expected_store>>
layerVars == <<initVars, last>>
vars == <<initVars, last, wrapperVars>>

----------------------------------------------------------------------------
(* Values *)

NullPtr == <<"null">>

VK_SUCCESS == "VK_SUCCESS"
VK_ERROR_INITIALIZATION_FAILED == "VK_ERROR_INITIALIZATION_FAILED"
VK_ERROR_OUT_OF_DEVICE_MEMORY == "VK_ERROR_OUT_OF_DEVICE_MEMORY"

\* Status codes a forwarded call can report.
ForwardedResults == {VK_SUCCESS, VK_ERROR_OUT_OF_DEVICE_MEMORY}

\* Dispatchable handles the host passes in; VK_NULL_HANDLE included.
VK_NULL_HANDLE == "VK_NULL_HANDLE"
InstanceHandles == {VK_NULL_HANDLE, "instance1", "instance2"}
DeviceHandles == {VK_NULL_HANDLE, "device1"}
QueueHandles == {"queue1", "queue2"}
FenceHandles == {VK_NULL_HANDLE, "fence1"}
MemoryHandles == {"memory1", "memory2"}
PipelineHandles == {"pipeline1", "pipeline2", "pipeline3"}
PhysicalDeviceHandles == {VK_NULL_HANDLE, "gpu1"}

\* The resolver of the link beneath this layer in the chain a handle lives in,
\* as the host knows it (the link information the host hands to a layer when
\* the handle is created).  The null handle has none.
NextLayerResolverOf(handle) ==
    CASE handle = "instance1" -> <<"resolver", "A">>
      [] handle = "instance2" -> <<"resolver", "B">>
      [] handle = "device1" -> <<"resolver", "A">>
      [] OTHER -> NullPtr

\* What a next-layer resolver returns for (handle, name).
NextLayerAnswer(resolver, handle, pName) == <<"next", resolver[2], handle, pName>>

\* Names the host asks for: the four intercepted ones, names that only
\* resemble them, and plain forwarded ones.
InterceptedNames ==
    {"vkCreateGraphicsPipelines", "vkCreateComputePipelines",
     "vkQueueSubmit", "vkAllocateMemory"}

OtherNames ==
    {"vkQueueSubmit2", "vkqueuesubmit", "vkAllocateMemor", "vkCreateInstance",
     "vkCreateDevice", "vkDestroyDevice", "vkDestroyInstance", "vkGetDeviceQueue",
     "vkGetInstanceProcAddr", "vkGetDeviceProcAddr", "vkCreateGraphicsPipeline",
     "vkCreateComputePipelinesKHR", "vkEnumerateInstanceLayerProperties", ""}

Names == InterceptedNames \cup OtherNames

----------------------------------------------------------------------------
(* layer_init.cpp *)

\* static const VkLayerProperties layer_properties
layer_properties ==
    [layerName |-> "VK_LAYER_XCLIPSE_940",
     specVersion |-> <<0, 1, 3, 0>>,
     implementationVersion |-> 1,
     description |-> "Xclipse 940 GPU Optimization Layer"]

\* The chain of std::strcmp tests at the head of both resolvers: the name the
\* wrapper is returned for, or "" when no test matches.
DropsAllocateMemory(pName) ==
    CASE pName = "vkCreateGraphicsPipelines" -> "vkCreateGraphicsPipelines"
      [] pName = "vkCreateComputePipelines" -> "vkCreateComputePipelines"
      [] pName = "vkQueueSubmit" -> "vkQueueSubmit"
      [] OTHER -> ""

InterceptMatch(pName) ==
    CASE pName = "vkCreateGraphicsPipelines" -> "vkCreateGraphicsPipelines"
      [] pName = "vkCreateComputePipelines" -> "vkCreateComputePipelines"
      [] pName = "vkQueueSubmit" -> "vkQueueSubmit"
      [] pName = "vkAllocateMemory" -> "vkAllocateMemory"
      [] OTHER -> ""

\* The tail of both resolvers: forward through the registered pointer, or null.
\* <<pointer returned, whether the next-layer resolver was called>>
ForwardLookup(next, handle, pName) ==
    IF next # NullPtr
    THEN <<NextLayerAnswer(next, handle, pName), TRUE>>
    ELSE <<NullPtr, FALSE>>

ResolveProcAddr(next, handle, pName) ==
    IF InterceptMatch(pName) # ""
    THEN <<(<<"wrapper", InterceptMatch(pName)>>), FALSE>>
    ELSE ForwardLookup(next, handle, pName)

vkGetInstanceProcAddr ==
    \E instance \in InstanceHandles, pName \in Names :
        LET r == ResolveProcAddr(g_layer_data.get_instance_proc_addr, instance, pName)
        IN  /\ last' = [call |-> "vkGetInstanceProcAddr", handle |-> instance,
                        pName |-> pName, result |-> r[1], consulted |-> r[2]]
            /\ UNCHANGED <<initVars, wrapperVars>>

vkGetDeviceProcAddr ==
    \E device \in DeviceHandles, pName \in Names :
        LET r == ResolveProcAddr(g_layer_data.get_device_proc_addr, device, pName)
        IN  /\ last' = [call |-> "vkGetDeviceProcAddr", handle |-> device,
                        pName |-> pName, result |-> r[1], consulted |-> r[2]]
            /\ UNCHANGED <<initVars, wrapperVars>>

\* vkCreateInstance: fails fast without the next layer's function, else passes
\* through.  The host passes the link to the next layer inside pCreateInfo;
\* `link` is that link's resolver, `nextResult` what the next layer's
\* vkCreateInstance returns for these arguments.
vkCreateInstance ==
    \E nextResult \in ForwardedResults, created \in InstanceHandles \ {VK_NULL_HANDLE} :
        /\ last' = IF vkCreateInstance_original = NullPtr
                   THEN [call |-> "vkCreateInstance", forwardedCalls |-> 0,
                         link |-> NextLayerResolverOf(created), nextResult |-> nextResult,
                         result |-> VK_ERROR_INITIALIZATION_FAILED,
                         handle |-> VK_NULL_HANDLE]
                   ELSE [call |-> "vkCreateInstance", forwardedCalls |-> 1,
                         link |-> NextLayerResolverOf(created), nextResult |-> nextResult,
                         result |-> nextResult,
                         handle |-> IF nextResult = VK_SUCCESS THEN created
                                    ELSE VK_NULL_HANDLE]
        /\ UNCHANGED <<initVars, wrapperVars>>

\* vkCreateDevice: the same, with an empty post-creation block.
vkCreateDevice ==
    \E nextResult \in ForwardedResults, created \in DeviceHandles \ {VK_NULL_HANDLE},
       physicalDevice \in PhysicalDeviceHandles \ {VK_NULL_HANDLE} :
        /\ last' = IF vkCreateDevice_original = NullPtr
                   THEN [call |-> "vkCreateDevice", forwardedCalls |-> 0,
                         physicalDevice |-> physicalDevice, created |-> created,
                         link |-> NextLayerResolverOf(created), nextResult |-> nextResult,
                         result |-> VK_ERROR_INITIALIZATION_FAILED,
                         handle |-> VK_NULL_HANDLE]
                   ELSE [call |-> "vkCreateDevice", forwardedCalls |-> 1,
                         physicalDevice |-> physicalDevice, created |-> created,
                         link |-> NextLayerResolverOf(created), nextResult |-> nextResult,
                         result |-> nextResult,
                         handle |-> IF nextResult = VK_SUCCESS THEN created
                                    ELSE VK_NULL_HANDLE]
        /\ UNCHANGED <<initVars, wrapperVars>>

----------------------------------------------------------------------------
(* vkEnumerateInstanceLayerProperties.  A pointer argument is a sequence:   *)
(* <<>> is the null pointer, <<v>> points at v.  The caller's buffer holds  *)
(* a blank record until something is copied into it.                        *)

BlankProperties ==
    [layerName |-> "", specVersion |-> <<0, 0, 0, 0>>, implementationVersion |-> 0,
     description |-> ""]

MaxDeclaredCount == 2

EnumerateCountWrite(pPropertyCount) ==
    IF pPropertyCount # <<>> THEN <<1>> ELSE pPropertyCount

\* The copy condition, evaluated after the count has been written.
EnumerateCopies(pPropertyCount, pProperties) ==
    /\ pProperties # <<>>
    /\ pPropertyCount # <<>>
    /\ EnumerateCountWrite(pPropertyCount)[1] >= 1

vkEnumerateInstanceLayerProperties ==
    \E pPropertyCount \in {<<>>} \cup {<<c>> : c \in 0..MaxDeclaredCount},
       pProperties \in {<<>>, <<BlankProperties>>} :
        /\ last' = [call |-> "vkEnumerateInstanceLayerProperties",
                    countIn |-> pPropertyCount,
                    bufferIn |-> pProperties,
                    countOut |-> EnumerateCountWrite(pPropertyCount),
                    bufferOut |-> IF EnumerateCopies(pPropertyCount, pProperties)
                                  THEN <<layer_properties>>
                                  ELSE pProperties,
                    result |-> VK_SUCCESS]
        /\ UNCHANGED <<initVars, wrapperVars>>

----------------------------------------------------------------------------
(* vkNegotiateLoaderLayerInterfaceVersion (part_000:298-311).  The record   *)
(* the loader passes: its type tag, the version it asks for, and the three  *)
(* function-pointer slots, which hold whatever the loader left in them.     *)

LAYER_NEGOTIATE_INTERFACE_STRUCT == "LAYER_NEGOTIATE_INTERFACE_STRUCT"

NegotiateTags ==
    {LAYER_NEGOTIATE_INTERFACE_STRUCT, "LAYER_NEGOTIATE_UNINTIALIZED",
     "VK_STRUCTURE_TYPE_APPLICATION_INFO"}

\* Largest interface version the loader asks for.
MaxInterfaceVersion == 4

\* A slot the loader filled before the call.
StalePtr == <<"stale">>

NegotiateRecords ==
    [sType : NegotiateTags,
     loaderLayerInterfaceVersion : 0..MaxInterfaceVersion,
     pfnGetInstanceProcAddr : {NullPtr, StalePtr},
     pfnGetDeviceProcAddr : {NullPtr, StalePtr},
     pfnGetPhysicalDeviceProcAddr : {NullPtr, StalePtr}]

\* The test on the type tag, with every tag accepted.
AcceptsAnyTag(s) == TRUE

\* pVersionStruct->sType != LAYER_NEGOTIATE_INTERFACE_STRUCT fails the call.
NegotiateTagOk(s) == s.sType = LAYER_NEGOTIATE_INTERFACE_STRUCT

\* The slots written whatever version is asked for.
AlwaysWritesSlots(s) == TRUE

\* if (pVersionStruct->loaderLayerInterfaceVersion >= 2)
NegotiateWritesSlots(s) == s.loaderLayerInterfaceVersion >= 2

\* The three assignments with the physical-device slot left as it was.
KeepsPhysicalDeviceSlot(s) ==
    [s EXCEPT !.pfnGetInstanceProcAddr = <<"wrapper", "vkGetInstanceProcAddr">>,
              !.pfnGetDeviceProcAddr = <<"wrapper", "vkGetDeviceProcAddr">>]

\* The three assignments of the version >= 2 branch.
NegotiateFillSlots(s) ==
    [s EXCEPT !.pfnGetInstanceProcAddr = <<"wrapper", "vkGetInstanceProcAddr">>,
              !.pfnGetDeviceProcAddr = <<"wrapper", "vkGetDeviceProcAddr">>,
              !.pfnGetPhysicalDeviceProcAddr = NullPtr]

\* The whole function: the status and the record as the call leaves it.
NegotiateLoaderLayerInterfaceVersion(s) ==
    IF ~NegotiateTagOk(s)
    THEN [result |-> VK_ERROR_INITIALIZATION_FAILED, pVersionStruct |-> s]
    ELSE LET filled == IF NegotiateWritesSlots(s) THEN NegotiateFillSlots(s) ELSE s
         IN  [result |-> VK_SUCCESS,
              pVersionStruct |-> [filled EXCEPT !.loaderLayerInterfaceVersion = 2]]

vkNegotiateLoaderLayerInterfaceVersion ==
    \E s \in NegotiateRecords :
        LET out == NegotiateLoaderLayerInterfaceVersion(s)
        IN  /\ last' = [call |-> "vkNegotiateLoaderLayerInterfaceVersion",
                        structIn |-> s, structOut |-> out.pVersionStruct,
                        result |-> out.result]
            /\ UNCHANGED <<initVars, wrapperVars>>

----------------------------------------------------------------------------
(* xclipse_wrapper.cpp: class Xclipse940Wrapper and the global g_wrapper.   *)
(* Each host thread runs one intercepted call at a time.                    *)

Threads == {"t1", "t2"}

\* Largest createInfoCount / submitCount the host passes.
MaxBatch == 2
\* Frames of self-recursion followed before the call is given up as
\* never returning.
MaxDepth == 2

VK_PIPELINE_BIND_POINT_GRAPHICS == "GRAPHICS"
VK_PIPELINE_BIND_POINT_COMPUTE == "COMPUTE"

VK_FALSE == 0
VK_TRUE == 1
VK_CULL_MODE_NONE == 0
VK_CULL_MODE_FRONT_BIT == 1
VK_CULL_MODE_BACK_BIT == 2
VK_SAMPLE_COUNT_1_BIT == 1
VK_SAMPLE_COUNT_4_BIT == 4
VK_SAMPLE_COUNT_8_BIT == 8
VK_MEMORY_PROPERTY_DEVICE_LOCAL_BIT == 1
VK_MEMORY_PROPERTY_HOST_VISIBLE_BIT == 2

Min(a, b) == IF a < b THEN a ELSE b

SeqToSet(s) == {s[k] : k \in 1..Len(s)}

\* What vkGetPhysicalDeviceMemoryProperties reports for a physical device.
MemoryPropertiesOf(physical_device) ==
    [memoryTypeCount |-> 2,
     memoryTypes |-> <<[propertyFlags |-> VK_MEMORY_PROPERTY_DEVICE_LOCAL_BIT],
                       [propertyFlags |-> VK_MEMORY_PROPERTY_HOST_VISIBLE_BIT]>>]

\* bool InitializeDeviceContext(VkPhysicalDevice, VkDevice): a public member;
\* rejects a null handle, else replaces the context and turns the features on.
InitializeDeviceContext ==
    \E physical_device \in PhysicalDeviceHandles, device \in DeviceHandles :
        /\ IF physical_device = VK_NULL_HANDLE \/ device = VK_NULL_HANDLE
           THEN UNCHANGED <<device_context_, features_initialized_>>
           ELSE /\ device_context_' =
                       <<[physical_device |-> physical_device,
                          device |-> device,
                          memory_properties |-> MemoryPropertiesOf(physical_device)]>>
                /\ features_initialized_' = TRUE
        /\ UNCHANGED <<layerVars, pipeline_mutex_, pipeline_cache_, symbol_binding,
                       pc, frame, expected_store>>

----------------------------------------------------------------------------
(* Graphics descriptors.  The caller owns an array of rasterization-state   *)
(* structures and an array of multisample-state structures; a descriptor    *)
(* points into them by index, 0 being the null pointer.                     *)

OptimizeRasterizationState(state) ==
    [state EXCEPT !.depthBiasEnable = VK_FALSE,
                  !.depthClampEnable = VK_FALSE,
                  !.rasterizerDiscardEnable = VK_FALSE,
                  !.cullMode = IF @ = VK_CULL_MODE_NONE THEN VK_CULL_MODE_BACK_BIT ELSE @]

OptimizeMultisampleState(state) ==
    IF state.rasterizationSamples = VK_SAMPLE_COUNT_1_BIT
    THEN state
    ELSE [state EXCEPT !.rasterizationSamples = Min(@, VK_SAMPLE_COUNT_4_BIT)]

\* The loop of CreateGraphicsPipelines over descriptors i..count: each pointed-to
\* structure is rewritten where it lies (the const_cast), the descriptor is
\* copied into optimized_infos.  Returns the caller's memory afterwards.
RECURSIVE OptimizeInPlace(_, _, _)
OptimizeInPlace(pCreateInfos, i, mem) ==
    IF i > Len(pCreateInfos) THEN mem
    ELSE LET d == pCreateInfos[i]
             m1 == IF d.pRasterizationState # 0
                   THEN [mem EXCEPT !.rast[d.pRasterizationState] =
                                        OptimizeRasterizationState(@)]
                   ELSE mem
             m2 == IF d.pMultisampleState # 0
                   THEN [m1 EXCEPT !.ms[d.pMultisampleState] =
                                        OptimizeMultisampleState(@)]
                   ELSE m1
         IN  OptimizeInPlace(pCreateInfos, i + 1, m2)

Rast(cull, bias) ==
    [cullMode |-> cull, depthBiasEnable |-> bias, depthClampEnable |-> VK_FALSE,
     rasterizerDiscardEnable |-> VK_FALSE]

\* The caller memories and descriptor batches graphics creation is called with.
GraphicsCalls(n) ==
    {[mem |-> [rast |-> <<Rast(VK_CULL_MODE_NONE, VK_TRUE)>>,
               ms |-> <<[rasterizationSamples |-> VK_SAMPLE_COUNT_8_BIT]>>],
      pCreateInfos |-> [k \in 1..n |->
            [pRasterizationState |-> 1, pMultisampleState |-> IF k = 1 THEN 1 ELSE 0,
             stages |-> k]]],
     [mem |-> [rast |-> <<Rast(VK_CULL_MODE_FRONT_BIT, VK_FALSE)>>,
               ms |-> <<[rasterizationSamples |-> VK_SAMPLE_COUNT_1_BIT]>>],
      pCreateInfos |-> [k \in 1..n |->
            [pRasterizationState |-> IF k = 1 THEN 0 ELSE 1, pMultisampleState |-> 1,
             stages |-> k]]]}

----------------------------------------------------------------------------
(* The object store *)

PipelineState(pipeline, bind_point) ==
    [pipeline |-> pipeline, usage_count |-> 1, bind_point |-> bind_point,
     shader_stages |-> 0]

\* pipeline_cache_[key] = state
StoreAssign(cache, key, state) ==
    [h \in DOMAIN cache \cup {key} |-> IF h = key THEN state ELSE cache[h]]

\* One iteration of the loop of CachePipelines.
CacheOne(cache, pipeline, bind_point) ==
    StoreAssign(cache, pipeline, PipelineState(pipeline, bind_point))

\* The body of OptimizeComputePipeline under the lock: find, then usage_count++.
BumpUsage(cache, pipeline) ==
    IF pipeline \in DOMAIN cache
    THEN [cache EXCEPT ![pipeline].usage_count = @ + 1]
    ELSE cache

----------------------------------------------------------------------------
(* Intercepted calls.  pc[t]:                                               *)
(*   "idle"       no call made yet                                          *)
(*   "forward"    inside the call the wrapper makes through the name vkXxx  *)
(*   "returned"   that call is back with its result                         *)
(*   "cache_lock" CachePipelines waits for pipeline_mutex_                  *)
(*   "cache_loop" CachePipelines holds it, frame[t].i is the loop index     *)
(*   "post_lock"  OptimizeComputePipeline(pPipelines[i]) waits for it       *)
(*   "post_inc"   OptimizeComputePipeline holds it                          *)
(*   "done"       the call has returned frame[t].ret to the host            *)
(*   "diverged"   the call recursed into itself and never returns           *)
(*                                                                          *)
(* A wrapper method calls the next layer through the plain name vkXxx       *)
(* (part_000:67,93,112,134,140,153).  The same file defines vkXxx as this   *)
(* layer's exported entry point (part_000:255-295), which calls the wrapper *)
(* method again; the symbol is exported, so a definition earlier in the     *)
(* host's lookup order can take its place.  symbol_binding is "self" or     *)
(* "host" accordingly, fixed when the layer is loaded.                      *)

Bindings == {"self", "host"}

CanStart(t) == pc[t] \in {"idle", "done"}

InSection(t) == pc[t] \in {"cache_loop", "post_inc"}

\* CachePipelines and the loop of OptimizeComputePipeline.
SectionStates == {"cache_lock", "cache_loop", "post_lock", "post_inc"}

\* Between the return of the forwarded creation call and the return to the host.
InFlight(t) == pc[t] \in SectionStates \cup {"returned"}

ValidHandles(pPipelines) == SeqToSet(pPipelines) \ {VK_NULL_HANDLE}

\* Handles the driver has handed to calls that have not returned yet: it
\* cannot hand them out again before the host destroys them.
Busy(t) ==
    UNION {ValidHandles(frame[u].pPipelines) : u \in {v \in Threads \ {t} : InFlight(v)}}

Injective(s) == \A a, b \in DOMAIN s : s[a] = s[b] => a = b

\* What the next layer can return for a batch of n: success with n distinct
\* valid handles, or a failure with some slots null (partial failure).
NextLayerPipelines(n, free) ==
    {[result |-> VK_SUCCESS, pPipelines |-> s] :
        s \in {q \in [1..n -> free] : Injective(q)}}
    \cup
    {[result |-> VK_ERROR_OUT_OF_DEVICE_MEMORY, pPipelines |-> s] :
        s \in {q \in [1..n -> free \cup {VK_NULL_HANDLE}] :
                 /\ \E k \in 1..n : q[k] = VK_NULL_HANDLE
                 /\ \A a, b \in 1..n : (q[a] = q[b] /\ q[a] # VK_NULL_HANDLE) => a = b}}

\* The mutex is taken by the constructor of std::lock_guard.
LockIgnoresOwner(t) == TRUE

CanLock(t) == pipeline_mutex_ = "free"

\* A write to the map.  Two threads inside the map at once is a data race:
\* the write may be lost.
MapWrite(t, written) ==
    IF \E u \in Threads \ {t} : InSection(u)
    THEN pipeline_cache_' \in {written, pipeline_cache_}
    ELSE pipeline_cache_' = written

\* What one finished call leaves in the store when it runs alone.
RECURSIVE CacheAll(_, _, _, _)
CacheAll(cache, pPipelines, i, bind_point) ==
    IF i > Len(pPipelines) THEN cache
    ELSE CacheAll(CacheOne(cache, pPipelines[i], bind_point), pPipelines, i + 1, bind_point)

RECURSIVE BumpAll(_, _, _)
BumpAll(cache, pPipelines, i) ==
    IF i > Len(pPipelines) THEN cache
    ELSE BumpAll(BumpUsage(cache, pPipelines[i]), pPipelines, i + 1)

RunAlone(cache, f) ==
    IF ~f.cached THEN cache
    ELSE IF f.op = "comp"
         THEN BumpAll(CacheAll(cache, f.pPipelines, 1, f.bind_point), f.pPipelines, 1)
         ELSE CacheAll(cache, f.pPipelines, 1, f.bind_point)

\* What is kept of a call once it has returned: of a pipeline creation, its
\* kind, status and path; of the other calls, the whole frame.
Retain(f) ==
    IF f.op \in {"gfx", "comp"}
    THEN [op |-> f.op, ret |-> f.ret, cached |-> f.cached, overlapped |-> f.overlapped,
          callerIntact |-> f.callerIntact]
    ELSE f

\* The call of thread t returns to the host with frame f.
Finish(t, f) ==
    /\ pc' = [pc EXCEPT ![t] = "done"]
    /\ frame' = [frame EXCEPT ![t] = Retain([f EXCEPT !.ret = f.result])]
    /\ expected_store' = RunAlone(expected_store, f)

PipelineFrame(op, n, pCreateInfos, mem) ==
    [op |-> op, depth |-> 0, createInfoCount |-> n,
     callerInfos |-> pCreateInfos, callerMem0 |-> mem,
     pCreateInfos |-> pCreateInfos, mem |-> mem,
     bind_point |-> IF op = "gfx" THEN VK_PIPELINE_BIND_POINT_GRAPHICS
                    ELSE VK_PIPELINE_BIND_POINT_COMPUTE,
     optimized |-> FALSE, fwd |-> <<>>, forwardedCalls |-> 0, result |-> <<>>,
     pPipelines |-> [k \in 1..n |-> VK_NULL_HANDLE],
     cached |-> FALSE, overlapped |-> FALSE, i |-> 0, ret |-> <<>>]

\* CreateGraphicsPipelines with the early return taken out.
GraphicsEntryAlwaysOptimizes(f, features) ==
    LET m == OptimizeInPlace(f.pCreateInfos, 1, f.mem)
    IN  [f EXCEPT !.optimized = TRUE, !.mem = m,
                  !.fwd = <<[pCreateInfos |-> f.pCreateInfos, mem |-> m]>>]

\* CreateGraphicsPipelines up to its forwarded call (part_000:66-95).
GraphicsEntry(f, features) ==
    IF ~features
    THEN [f EXCEPT !.optimized = FALSE,
                   !.fwd = <<[pCreateInfos |-> f.pCreateInfos, mem |-> f.mem]>>]
    ELSE LET m == OptimizeInPlace(f.pCreateInfos, 1, f.mem)
         IN  [f EXCEPT !.optimized = TRUE, !.mem = m,
                       !.fwd = <<[pCreateInfos |-> f.pCreateInfos, mem |-> m]>>]

\* CreateComputePipelines up to its forwarded call (part_000:112-113).
ComputeEntry(f) ==
    [f EXCEPT !.fwd = <<[pCreateInfos |-> f.pCreateInfos, mem |-> f.mem]>>]

PipelineEntry(f, features) ==
    IF f.op = "gfx" THEN GraphicsEntry(f, features) ELSE ComputeEntry(f)

\* The host calls vkCreateGraphicsPipelines.
vkCreateGraphicsPipelines(t) ==
    /\ CanStart(t)
    /\ \E n \in 1..MaxBatch : \E c \in GraphicsCalls(n) :
          frame' = [frame EXCEPT ![t] =
                       GraphicsEntry(PipelineFrame("gfx", n, c.pCreateInfos, c.mem),
                                     features_initialized_)]
    /\ pc' = [pc EXCEPT ![t] = "forward"]
    /\ UNCHANGED <<layerVars, pipeline_mutex_, pipeline_cache_, device_context_,
                   features_initialized_, symbol_binding, expected_store>>

\* The host calls vkCreateComputePipelines.
vkCreateComputePipelines(t) ==
    /\ CanStart(t)
    /\ \E n \in 1..MaxBatch :
          frame' = [frame EXCEPT ![t] =
                       ComputeEntry(PipelineFrame("comp", n,
                                        [k \in 1..n |-> [stage |-> k]],
                                        [rast |-> <<>>, ms |-> <<>>]))]
    /\ pc' = [pc EXCEPT ![t] = "forward"]
    /\ UNCHANGED <<layerVars, pipeline_mutex_, pipeline_cache_, device_context_,
                   features_initialized_, symbol_binding, expected_store>>

\* The forwarded creation call lands in this layer's own entry point.
PipelineReenter(t) ==
    /\ pc[t] = "forward" /\ frame[t].op \in {"gfx", "comp"}
    /\ symbol_binding = "self"
    /\ IF frame[t].depth < MaxDepth
       THEN /\ frame' = [frame EXCEPT ![t] =
                   PipelineEntry([frame[t] EXCEPT !.depth = @ + 1,
                                                  !.pCreateInfos = frame[t].fwd[1].pCreateInfos,
                                                  !.fwd = <<>>],
                                 features_initialized_)]
            /\ pc' = pc
       ELSE /\ pc' = [pc EXCEPT ![t] = "diverged"]
            /\ frame' = frame
    /\ UNCHANGED <<layerVars, pipeline_mutex_, pipeline_cache_, device_context_,
                   features_initialized_, symbol_binding, expected_store>>

\* The forwarded creation call returns from the next layer, which has
\* written the output array.  The descriptors are not read again, and the
\* caller's memory is not written again: callerIntact says whether it holds
\* what it held when the host made the call.
PipelineReturn(t) ==
    /\ pc[t] = "forward" /\ frame[t].op \in {"gfx", "comp"}
    /\ symbol_binding = "host"
    /\ \E out \in NextLayerPipelines(frame[t].createInfoCount, PipelineHandles \ Busy(t)) :
          frame' = [frame EXCEPT ![t] =
                       [op |-> frame[t].op, depth |-> frame[t].depth,
                        createInfoCount |-> frame[t].createInfoCount,
                        bind_point |-> frame[t].bind_point,
                        optimized |-> frame[t].optimized,
                        callerIntact |-> (/\ frame[t].mem = frame[t].callerMem0
                                          /\ frame[t].pCreateInfos = frame[t].callerInfos),
                        forwardedCalls |-> frame[t].forwardedCalls + 1,
                        result |-> <<out.result>>, pPipelines |-> out.pPipelines,
                        cached |-> FALSE, overlapped |-> FALSE, i |-> 0, ret |-> <<>>]]
    /\ pc' = [pc EXCEPT ![t] = "returned"]
    /\ UNCHANGED <<layerVars, pipeline_mutex_, pipeline_cache_, device_context_,
                   features_initialized_, symbol_binding, expected_store>>

\* The test without its look at the forwarded status.
CachesWhateverResult(f, features) ==
    IF f.op = "gfx" THEN f.optimized ELSE features

\* Whether the call goes on to CachePipelines once the forwarded call is back
\* (part_000:97 after the early return at 66-69; part_000:115).
GoesOnToCache(f, features) ==
    IF f.op = "gfx"
    THEN f.optimized /\ f.result = <<VK_SUCCESS>>
    ELSE f.result = <<VK_SUCCESS>> /\ features

\* The test on the forwarded result: on to CachePipelines, or back to the host.
PipelineAfterForward(t) ==
    /\ pc[t] = "returned"
    /\ IF GoesOnToCache(frame[t], features_initialized_)
       THEN /\ frame' = [u \in Threads |->
                           IF u = t
                           THEN [frame[t] EXCEPT
                                    !.cached = TRUE,
                                    !.overlapped =
                                        \E v \in Threads \ {t} : pc[v] \in SectionStates]
                           ELSE IF pc[u] \in SectionStates
                                THEN [frame[u] EXCEPT !.overlapped = TRUE]
                                ELSE frame[u]]
            /\ pc' = [pc EXCEPT ![t] = "cache_lock"]
            /\ UNCHANGED expected_store
       ELSE Finish(t, frame[t])
    /\ UNCHANGED <<layerVars, pipeline_mutex_, pipeline_cache_, device_context_,
                   features_initialized_, symbol_binding>>

\* CachePipelines: std::lock_guard lock(pipeline_mutex_)
CacheLock(t) ==
    /\ pc[t] = "cache_lock"
    /\ CanLock(t)
    /\ pipeline_mutex_' = t
    /\ pc' = [pc EXCEPT ![t] = "cache_loop"]
    /\ frame' = [frame EXCEPT ![t].i = 1]
    /\ UNCHANGED <<layerVars, pipeline_cache_, device_context_, features_initialized_,
                   symbol_binding, expected_store>>

\* CachePipelines: one iteration of the loop.
CacheInsert(t) ==
    /\ pc[t] = "cache_loop"
    /\ frame[t].i <= frame[t].createInfoCount
    /\ MapWrite(t, CacheOne(pipeline_cache_, frame[t].pPipelines[frame[t].i],
                            frame[t].bind_point))
    /\ frame' = [frame EXCEPT ![t].i = @ + 1]
    /\ UNCHANGED <<layerVars, pipeline_mutex_, device_context_, features_initialized_,
                   symbol_binding, pc, expected_store>>

\* CachePipelines returns, the guard releases the mutex.  Graphics creation
\* returns to the host; compute creation starts its loop of
\* OptimizeComputePipeline.
CacheUnlock(t) ==
    /\ pc[t] = "cache_loop"
    /\ frame[t].i > frame[t].createInfoCount
    /\ pipeline_mutex_' = "free"
    /\ IF frame[t].op = "gfx"
       THEN Finish(t, frame[t])
       ELSE /\ pc' = [pc EXCEPT ![t] = "post_lock"]
            /\ frame' = [frame EXCEPT ![t].i = 1]
            /\ UNCHANGED expected_store
    /\ UNCHANGED <<layerVars, pipeline_cache_, device_context_, features_initialized_,
                   symbol_binding>>

\* OptimizeComputePipeline: std::lock_guard lock(pipeline_mutex_)
PostLock(t) ==
    /\ pc[t] = "post_lock"
    /\ CanLock(t)
    /\ pipeline_mutex_' = t
    /\ pc' = [pc EXCEPT ![t] = "post_inc"]
    /\ UNCHANGED <<layerVars, pipeline_cache_, device_context_, features_initialized_,
                   symbol_binding, frame, expected_store>>

\* OptimizeComputePipeline: find, usage_count++, release; then the next
\* pipeline of the batch or the return to the host.
PostBump(t) ==
    /\ pc[t] = "post_inc"
    /\ MapWrite(t, BumpUsage(pipeline_cache_, frame[t].pPipelines[frame[t].i]))
    /\ pipeline_mutex_' = "free"
    /\ IF frame[t].i < frame[t].createInfoCount
       THEN /\ pc' = [pc EXCEPT ![t] = "post_lock"]
            /\ frame' = [frame EXCEPT ![t].i = @ + 1]
            /\ UNCHANGED expected_store
       ELSE Finish(t, frame[t])
    /\ UNCHANGED <<layerVars, device_context_, features_initialized_, symbol_binding>>

----------------------------------------------------------------------------
(* Memory allocation.  VkDeviceSize is 64 bits wide; a size is four 16-bit  *)
(* limbs, most significant first.  kCacheLineSize is a uint32_t, so         *)
(* kCacheLineSize - 1 and its complement are computed in 32 bits and only   *)
(* then widened to 64 bits for the &.                                       *)

kCacheLineSize == 64

Limb == 2 ^ 16

RECURSIVE BitAnd(_, _)
BitAnd(a, b) ==
    IF a = 0 \/ b = 0 THEN 0
    ELSE (a % 2) * (b % 2) + 2 * BitAnd(a \div 2, b \div 2)

\* x + k in 64 bits, for 0 <= k < 2^16.
U64Add(x, k) ==
    LET s4 == x[4] + k
        s3 == x[3] + (s4 \div Limb)
        s2 == x[2] + (s3 \div Limb)
        s1 == x[1] + (s2 \div Limb)
    IN  <<s1 % Limb, s2 % Limb, s3 % Limb, s4 % Limb>>

\* x - 1 in 64 bits.
U64Dec(x) ==
    IF x[4] > 0 THEN <<x[1], x[2], x[3], x[4] - 1>>
    ELSE IF x[3] > 0 THEN <<x[1], x[2], x[3] - 1, Limb - 1>>
    ELSE IF x[2] > 0 THEN <<x[1], x[2] - 1, Limb - 1, Limb - 1>>
    ELSE IF x[1] > 0 THEN <<x[1] - 1, Limb - 1, Limb - 1, Limb - 1>>
    ELSE <<Limb - 1, Limb - 1, Limb - 1, Limb - 1>>

U64And(x, m) == [k \in 1..4 |-> BitAnd(x[k], m[k])]

\* ~v for a uint32_t v < 2^16, as <<high half, low half>>.
Not32(v) == <<Limb - 1, Limb - 1 - v>>

\* uint32_t -> uint64_t
Widen32(w) == <<0, 0, w[1], w[2]>>

\* ~(kCacheLineSize - 1) as the right operand of the 64-bit &.
AlignMask == Widen32(Not32(kCacheLineSize - 1))

\* (info.allocationSize + kCacheLineSize - 1) & ~(kCacheLineSize - 1)
AlignUp(allocationSize) ==
    U64And(U64Dec(U64Add(allocationSize, kCacheLineSize)), AlignMask)

\* OptimizeMemoryAllocation with the index steered to a device-local type.
OptimizeMemoryAllocationPrefersLocal(info, context) ==
    LET aligned == [info EXCEPT !.allocationSize = AlignUp(@)]
        props == context.memory_properties
    IN  IF /\ aligned.memoryTypeIndex < props.memoryTypeCount
           /\ BitAnd(props.memoryTypes[aligned.memoryTypeIndex + 1].propertyFlags,
                     VK_MEMORY_PROPERTY_DEVICE_LOCAL_BIT) # 0
        THEN aligned
        ELSE [aligned EXCEPT !.memoryTypeIndex = 0]

\* OptimizeMemoryAllocation(info): rounds the size; looks at the chosen
\* memory type and leaves the request as it is either way.
OptimizeMemoryAllocation(info, context) ==
    LET aligned == [info EXCEPT !.allocationSize = AlignUp(@)]
        props == context.memory_properties
    IN  IF aligned.memoryTypeIndex < props.memoryTypeCount
        THEN IF BitAnd(props.memoryTypes[aligned.memoryTypeIndex + 1].propertyFlags,
                       VK_MEMORY_PROPERTY_DEVICE_LOCAL_BIT) # 0
             THEN aligned
             ELSE aligned
        ELSE aligned

\* The sizes and memory-type indices the host asks for.
AllocationSizes ==
    {<<a, b, c, d>> : a \in {0, Limb - 1}, b \in {0, 1}, c \in {0, Limb - 1},
                      d \in {0, 1, 63, 64, 65, Limb - 64, Limb - 63, Limb - 1}}

MemoryTypeIndices == {0, 1, 2}

\* AllocateMemory up to its forwarded call (part_000:133-140): the request is
\* forwarded as it is, or a rounded copy of it is.
AllocateEntry(f, features, context) ==
    IF ~features
    THEN [f EXCEPT !.optimized = FALSE, !.fwd = <<f.pAllocateInfo>>]
    ELSE [f EXCEPT !.optimized = TRUE,
                   !.fwd = <<OptimizeMemoryAllocation(f.pAllocateInfo, context[1])>>]

\* The host calls vkAllocateMemory with a size and an index out of the sets.
AllocateCall(t, sizes, indices) ==
    /\ CanStart(t)
    /\ \E size \in sizes, index \in indices :
          LET info == [allocationSize |-> size, memoryTypeIndex |-> index]
          IN  frame' = [frame EXCEPT ![t] =
                  AllocateEntry([op |-> "alloc", depth |-> 0,
                                 callerInfo0 |-> info, callerInfo |-> info,
                                 pAllocateInfo |-> info,
                                 optimized |-> FALSE, fwd |-> <<>>,
                                 forwardedCalls |-> 0, result |-> <<>>, ret |-> <<>>],
                                features_initialized_, device_context_)]
    /\ pc' = [pc EXCEPT ![t] = "forward"]
    /\ UNCHANGED <<layerVars, pipeline_mutex_, pipeline_cache_, device_context_,
                   features_initialized_, symbol_binding, expected_store>>

vkAllocateMemory(t) == AllocateCall(t, AllocationSizes, MemoryTypeIndices)

\* The same entry point under a host that asks for few sizes.
FewAllocationSizes == {<<0, 0, 0, 1>>, <<0, 0, 0, 64>>}

vkAllocateMemoryFew(t) == AllocateCall(t, FewAllocationSizes, MemoryTypeIndices)

\* The forwarded allocation lands in this layer's own entry point.
AllocateReenter(t) ==
    /\ pc[t] = "forward" /\ frame[t].op = "alloc"
    /\ symbol_binding = "self"
    /\ IF frame[t].depth < MaxDepth
       THEN /\ frame' = [frame EXCEPT ![t] =
                   AllocateEntry([frame[t] EXCEPT !.depth = @ + 1,
                                                  !.pAllocateInfo = frame[t].fwd[1],
                                                  !.fwd = <<>>],
                                 features_initialized_, device_context_)]
            /\ pc' = pc
       ELSE /\ pc' = [pc EXCEPT ![t] = "diverged"]
            /\ frame' = frame
    /\ UNCHANGED <<layerVars, pipeline_mutex_, pipeline_cache_, device_context_,
                   features_initialized_, symbol_binding, expected_store>>

\* The forwarded allocation returns from the next layer, which has written
\* *pMemory on success; the wrapper returns its status.
AllocateReturn(t) ==
    /\ pc[t] = "forward" /\ frame[t].op = "alloc"
    /\ symbol_binding = "host"
    /\ \E status \in ForwardedResults, memory \in MemoryHandles :
          LET out == [status |-> status,
                      pMemory |-> IF status = VK_SUCCESS THEN memory ELSE VK_NULL_HANDLE]
          IN  frame' = [frame EXCEPT ![t].result = <<out>>,
                                     ![t].forwardedCalls = @ + 1,
                                     ![t].ret = <<out>>]
    /\ pc' = [pc EXCEPT ![t] = "done"]
    /\ UNCHANGED <<layerVars, pipeline_mutex_, pipeline_cache_, device_context_,
                   features_initialized_, symbol_binding, expected_store>>

----------------------------------------------------------------------------
(* Queue submission.  A submission descriptor is its commandBufferCount.    *)

CommandBufferCounts == {0, 1, 2, 3}

IsLikelyComputeWorkload(submit) == submit > 2

IsLikelyTransferWorkload(submit) == submit = 1

\* The three local vectors of OptimizeQueueSubmission, as indices into the
\* batch; they go out of scope when it returns.
OptimizeQueueSubmission(submits, count) ==
    [compute_submits |->
        SelectSeq([k \in 1..count |-> k], LAMBDA k : IsLikelyComputeWorkload(submits[k])),
     transfer_submits |->
        SelectSeq([k \in 1..count |-> k],
                  LAMBDA k : ~IsLikelyComputeWorkload(submits[k])
                             /\ IsLikelyTransferWorkload(submits[k])),
     graphics_submits |->
        SelectSeq([k \in 1..count |-> k],
                  LAMBDA k : ~IsLikelyComputeWorkload(submits[k])
                             /\ ~IsLikelyTransferWorkload(submits[k]))]

\* A forwarded batch put in the order compute, graphics, transfer.
SubmitReordered(queue, submitCount, pSubmits, fence, classified) ==
    LET order == classified.compute_submits \o classified.graphics_submits
                 \o classified.transfer_submits
    IN  [queue |-> queue, submitCount |-> submitCount,
         pSubmits |-> [k \in 1..Len(order) |-> pSubmits[order[k]]],
         fence |-> fence]

\* The arguments of the forwarded vkQueueSubmit (part_000:153).
SubmitForwarded(queue, submitCount, pSubmits, fence, classified) ==
    [queue |-> queue, submitCount |-> submitCount, pSubmits |-> pSubmits,
     fence |-> fence]

\* QueueSubmit up to its forwarded call (part_000:149-153).
SubmitEntry(f, features) ==
    LET classified == IF features
                      THEN <<OptimizeQueueSubmission(f.pSubmits, f.submitCount)>>
                      ELSE <<>>
    IN  [f EXCEPT !.classified = classified,
                  !.fwd = <<IF features
                            THEN SubmitForwarded(f.queue, f.submitCount, f.pSubmits,
                                                 f.fence, classified[1])
                            ELSE [queue |-> f.queue, submitCount |-> f.submitCount,
                                  pSubmits |-> f.pSubmits, fence |-> f.fence]>>]

\* The host calls vkQueueSubmit with descriptors out of the set.
SubmitCall(t, queues, counts) ==
    /\ CanStart(t)
    /\ \E queue \in queues, fence \in FenceHandles, n \in 0..MaxBatch :
       \E submits \in [1..n -> counts] :
          frame' = [frame EXCEPT ![t] =
              SubmitEntry([op |-> "submit", depth |-> 0,
                           callerArgs |-> [queue |-> queue, submitCount |-> n,
                                           pSubmits |-> submits, fence |-> fence],
                           queue |-> queue, submitCount |-> n, pSubmits |-> submits,
                           fence |-> fence, classified |-> <<>>, fwd |-> <<>>,
                           forwardedCalls |-> 0, result |-> <<>>, ret |-> <<>>],
                          features_initialized_)]
    /\ pc' = [pc EXCEPT ![t] = "forward"]
    /\ UNCHANGED <<layerVars, pipeline_mutex_, pipeline_cache_, device_context_,
                   features_initialized_, symbol_binding, expected_store>>

vkQueueSubmit(t) == SubmitCall(t, QueueHandles, CommandBufferCounts)

\* The same entry point under a host with one queue and two kinds of batch.
vkQueueSubmitFew(t) == SubmitCall(t, {"queue1"}, {1, 3})

\* The forwarded submission lands in this layer's own entry point.
SubmitReenter(t) ==
    /\ pc[t] = "forward" /\ frame[t].op = "submit"
    /\ symbol_binding = "self"
    /\ IF frame[t].depth < MaxDepth
       THEN /\ frame' = [frame EXCEPT ![t] =
                   SubmitEntry([frame[t] EXCEPT !.depth = @ + 1,
                                                !.queue = frame[t].fwd[1].queue,
                                                !.submitCount = frame[t].fwd[1].submitCount,
                                                !.pSubmits = frame[t].fwd[1].pSubmits,
                                                !.fence = frame[t].fwd[1].fence,
                                                !.fwd = <<>>],
                               features_initialized_)]
            /\ pc' = pc
       ELSE /\ pc' = [pc EXCEPT ![t] = "diverged"]
            /\ frame' = frame
    /\ UNCHANGED <<layerVars, pipeline_mutex_, pipeline_cache_, device_context_,
                   features_initialized_, symbol_binding, expected_store>>

\* The forwarded submission returns from the next layer; the wrapper returns
\* its status.
SubmitReturn(t) ==
    /\ pc[t] = "forward" /\ frame[t].op = "submit"
    /\ symbol_binding = "host"
    /\ \E status \in ForwardedResults :
          frame' = [frame EXCEPT ![t].result = <<status>>,
                                 ![t].forwardedCalls = @ + 1,
                                 ![t].ret = <<status>>]
    /\ pc' = [pc EXCEPT ![t] = "done"]
    /\ UNCHANGED <<layerVars, pipeline_mutex_, pipeline_cache_, device_context_,
                   features_initialized_, symbol_binding, expected_store>>

----------------------------------------------------------------------------

Init ==
    /\ g_layer_data = [get_instance_proc_addr |-> NullPtr,
                       get_device_proc_addr |-> NullPtr]
    /\ vkCreateInstance_original = NullPtr
    /\ vkCreateDevice_original = NullPtr
    /\ last = [call |-> "none"]
    /\ pipeline_mutex_ = "free"
    /\ pipeline_cache_ = <<>>
    /\ device_context_ = <<>>
    /\ features_initialized_ = FALSE
    /\ symbol_binding \in Bindings
    /\ pc = [t \in Threads |-> "idle"]
    /\ frame = [t \in Threads |-> [op |-> "none"]]
    /\ expected_store = <<>>

\* The host drives layer_init.cpp and negotiates the interface.
NextLayer ==
    \/ vkGetInstanceProcAddr
    \/ vkGetDeviceProcAddr
    \/ vkCreateInstance
    \/ vkCreateDevice
    \/ vkEnumerateInstanceLayerProperties
    \/ vkNegotiateLoaderLayerInterfaceVersion

SpecLayer == Init /\ [][NextLayer]_vars

\* Host threads create pipelines concurrently.
Next ==
    \/ InitializeDeviceContext
    \/ \E t \in Threads :
          \/ vkCreateGraphicsPipelines(t)
          \/ vkCreateComputePipelines(t)
          \/ PipelineReenter(t)
          \/ PipelineReturn(t)
          \/ PipelineAfterForward(t)
          \/ CacheLock(t)
          \/ CacheInsert(t)
          \/ CacheUnlock(t)
          \/ PostLock(t)
          \/ PostBump(t)

Spec == Init /\ [][Next]_vars

\* One host thread allocates memory.
NextAlloc ==
    \/ InitializeDeviceContext
    \/ vkAllocateMemory("t1")
    \/ AllocateReenter("t1")
    \/ AllocateReturn("t1")

SpecAlloc == Init /\ [][NextAlloc]_vars

\* One host thread creates pipelines and submits work.
NextSubmit ==
    \/ InitializeDeviceContext
    \/ vkCreateGraphicsPipelines("t1")
    \/ vkCreateComputePipelines("t1")
    \/ PipelineReenter("t1")
    \/ PipelineReturn("t1")
    \/ PipelineAfterForward("t1")
    \/ CacheLock("t1")
    \/ CacheInsert("t1")
    \/ CacheUnlock("t1")
    \/ PostLock("t1")
    \/ PostBump("t1")
    \/ vkQueueSubmit("t1")
    \/ SubmitReenter("t1")
    \/ SubmitReturn("t1")

SpecSubmit == Init /\ [][NextSubmit]_vars

\* One host thread uses every intercepted operation.
NextAll ==
    \/ vkCreateInstance
    \/ vkCreateDevice
    \/ InitializeDeviceContext
    \/ vkCreateGraphicsPipelines("t1")
    \/ vkCreateComputePipelines("t1")
    \/ PipelineReenter("t1")
    \/ PipelineReturn("t1")
    \/ PipelineAfterForward("t1")
    \/ CacheLock("t1")
    \/ CacheInsert("t1")
    \/ CacheUnlock("t1")
    \/ PostLock("t1")
    \/ PostBump("t1")
    \/ vkAllocateMemoryFew("t1")
    \/ AllocateReenter("t1")
    \/ AllocateReturn("t1")
    \/ vkQueueSubmitFew("t1")
    \/ SubmitReenter("t1")
    \/ SubmitReturn("t1")

SpecAll == Init /\ [][NextAll]_vars

----------------------------------------------------------------------------
(* Properties *)

Resolvers == {NextLayerResolverOf(h) : h \in InstanceHandles \cup DeviceHandles}

ResolverCall == last.call \in {"vkGetInstanceProcAddr", "vkGetDeviceProcAddr"}

\* C1: for every name on the allow-list both resolvers return this layer's
\* wrapper of that name, for every handle, whatever pointer is registered for
\* forwarding, and the next-layer resolver is not called.
C1_AllowListReturnsWrapper ==
    /\ (ResolverCall /\ last.pName \in InterceptedNames)
       => (last.result = <<"wrapper", last.pName>> /\ ~last.consulted)
    /\ \A next \in Resolvers, h \in InstanceHandles \cup DeviceHandles,
          n \in InterceptedNames :
          ResolveProcAddr(next, h, n) = <<(<<"wrapper", n>>), FALSE>>

\* The device-level resolver was asked for an intercepted name on the null
\* handle, with nothing registered for forwarding.
C1_Witness ==
    /\ last.call = "vkGetDeviceProcAddr"
    /\ last.handle = VK_NULL_HANDLE
    /\ last.pName = "vkAllocateMemory"
    /\ g_layer_data.get_device_proc_addr = NullPtr
    /\ last.result = <<"wrapper", "vkAllocateMemory">>

C10_EnumerateRespectsCapacity ==
    last.call = "vkEnumerateInstanceLayerProperties"
    => /\ last.bufferOut # last.bufferIn
          => (last.countIn # <<>> /\ last.countIn[1] >= 1)
       /\ (last.bufferIn = <<>> /\ last.countIn # <<>>) => last.countOut = <<1>>
       /\ last.result = VK_SUCCESS

\* The step by which the intercepted call of thread t returns to the host.
Returning(t) == pc[t] # "done" /\ pc'[t] = "done"

PipelineCall(t) == frame[t].op \in {"gfx", "comp"}

\* The usage counter a creation call of this kind leaves: the compute kind
\* has the post-pass.
UsageAfter(op) == IF op = "comp" THEN 2 ELSE 1

HasRecord(cache, h, bind_point, usage) ==
    /\ h \in DOMAIN cache
    /\ cache[h].bind_point = bind_point
    /\ cache[h].usage_count = usage

\* C3: whenever an intercepted pipeline-creation call returns after its
\* forwarded call reported success for the whole batch, the store holds a
\* record for each returned handle, with the call's bind point and usage
\* counter 1 (graphics) or 2 (compute), whatever state the layer was in.
C3_SuccessLeavesRecords ==
    [][\A t \in Threads :
          (Returning(t) /\ PipelineCall(t) /\ frame[t].result = <<VK_SUCCESS>>)
          => \A k \in 1..frame[t].createInfoCount :
                HasRecord(pipeline_cache_', frame[t].pPipelines[k],
                          frame[t].bind_point, UsageAfter(frame[t].op))]_vars

\* The same for the calls that took the caching path.
CachedSuccessLeavesRecords ==
    [][\A t \in Threads :
          (Returning(t) /\ PipelineCall(t) /\ frame[t].cached)
          => \A k \in 1..frame[t].createInfoCount :
                HasRecord(pipeline_cache_', frame[t].pPipelines[k],
                          frame[t].bind_point, UsageAfter(frame[t].op))]_vars

\* The call of thread t ran with the device context initialized at the
\* point where it tests features_initialized_.
InterceptionOn(t) ==
    IF frame[t].op = "gfx" THEN frame[t].optimized ELSE features_initialized_

\* C4: whenever an intercepted pipeline-creation call (made with the device
\* context initialized) returns after its forwarded call reported a failure
\* that left some output slots valid, the store holds a record for every
\* valid handle of the batch and none for an invalid slot.
C4_PartialFailureRecordsValid ==
    [][\A t \in Threads :
          (/\ Returning(t) /\ PipelineCall(t) /\ InterceptionOn(t)
           /\ frame[t].result # <<VK_SUCCESS>>
           /\ ValidHandles(frame[t].pPipelines) # {})
          => /\ ValidHandles(frame[t].pPipelines) \subseteq DOMAIN pipeline_cache_'
             /\ VK_NULL_HANDLE \notin DOMAIN pipeline_cache_']_vars

\* C5: records and successful creations go together: a record appears only
\* for a handle of a creation whose forwarded call succeeded, and every
\* creation call that returns success has a record for each of its handles.
C5_RecordIffCreated ==
    [][/\ \A h \in (DOMAIN pipeline_cache_') \ DOMAIN pipeline_cache_ :
             \E t \in Threads :
                /\ PipelineCall(t) /\ frame[t].result = <<VK_SUCCESS>>
                /\ h \in ValidHandles(frame[t].pPipelines)
       /\ \A t \in Threads :
             (Returning(t) /\ PipelineCall(t) /\ frame[t].result = <<VK_SUCCESS>>)
             => ValidHandles(frame[t].pPipelines) \subseteq DOMAIN pipeline_cache_']_vars

\* No thread is inside CachePipelines or the post-pass.
Quiescent == \A t \in Threads : pc[t] \notin SectionStates

\* C6: under every interleaving of concurrent creation calls on disjoint
\* handles, once no call is inside the store the store is exactly what the
\* finished calls insert one after another: no record lost, none extra, every
\* usage counter as its creating call alone leaves it.
C6_ConcurrentUnion == Quiescent => pipeline_cache_ = expected_store

\* Two calls, one of them compute, ran their caching at the same time and
\* both have returned.
C6_Witness ==
    /\ \A t \in Threads :
          pc[t] = "done" /\ PipelineCall(t) /\ frame[t].cached /\ frame[t].overlapped
    /\ \E t \in Threads : frame[t].op = "comp"
    /\ Cardinality(DOMAIN pipeline_cache_) >= 2

\* pipeline_mutex_ is held by at most the thread recorded in it, and a thread
\* is inside the map only while holding it.
MutualExclusion ==
    \A t \in Threads : InSection(t) => pipeline_mutex_ = t

\* The smallest multiple of kCacheLineSize that is >= size, as <<multiple>>,
\* or <<>> when it does not fit 64 bits.
SmallestMultipleAtLeast(size) ==
    LET floor == <<size[1], size[2], size[3], size[4] - (size[4] % kCacheLineSize)>>
    IN  IF size[4] % kCacheLineSize = 0 THEN <<size>>
        ELSE IF floor = <<Limb - 1, Limb - 1, Limb - 1, Limb - kCacheLineSize>> THEN <<>>
        ELSE <<U64Add(floor, kCacheLineSize)>>

\* C7: the request forwarded by an intercepted allocation (made with the
\* device context initialized) has the smallest multiple of 64 that is >= the
\* requested size, for every 64-bit size.
C7_ForwardedSizeAligned ==
    \A t \in Threads :
       (frame[t].op = "alloc" /\ frame[t].optimized /\ frame[t].fwd # <<>>)
       => <<frame[t].fwd[1].allocationSize>> =
             SmallestMultipleAtLeast(frame[t].pAllocateInfo.allocationSize)

\* C8: the forwarded allocation request carries the caller's memory-type
\* index, the caller's request structure is as it was, and the call returns
\* the status and the memory handle of the next layer.
C8_AllocateFrame ==
    \A t \in Threads :
       (frame[t].op = "alloc" /\ frame[t].fwd # <<>>)
       => /\ frame[t].fwd[1].memoryTypeIndex = frame[t].callerInfo0.memoryTypeIndex
          /\ frame[t].callerInfo = frame[t].callerInfo0
          /\ pc[t] = "done" => (frame[t].ret = frame[t].result /\ frame[t].ret # <<>>)

\* An allocation with the context initialized, a type that is not
\* device-local, a size that was rounded, has returned the next layer's
\* success.
C8_Witness ==
    \E t \in Threads :
       /\ pc[t] = "done" /\ frame[t].op = "alloc" /\ frame[t].optimized
       /\ frame[t].callerInfo0.memoryTypeIndex = 1
       /\ frame[t].fwd[1].allocationSize # frame[t].callerInfo0.allocationSize
       /\ frame[t].ret[1].status = VK_SUCCESS

\* A step of a queue submission of thread t.
SubmitStep(t) == frame'[t].op = "submit" /\ frame'[t] # frame[t]

\* C9: the forwarded vkQueueSubmit receives the queue, the count, the
\* descriptors in their order and the fence of the original call, whatever
\* the classification; the call returns the forwarded status after one
\* forwarded call; and no step of it changes the store, the mutex, the device
\* context or the features flag.
C9_SubmitForwardedVerbatim ==
    [][\A t \in Threads :
          SubmitStep(t)
          => /\ frame'[t].fwd # <<>> => frame'[t].fwd[1] = frame'[t].callerArgs
             /\ pc'[t] = "done" => (/\ frame'[t].ret = frame'[t].result
                                    /\ frame'[t].ret # <<>>
                                    /\ frame'[t].forwardedCalls = 1)
             /\ UNCHANGED <<pipeline_cache_, pipeline_mutex_, device_context_,
                            features_initialized_>>]_vars

\* A submission of a transfer-like descriptor followed by a compute-like one
\* was classified and has returned, with records in the store.
C9_Witness ==
    \E t \in Threads :
       /\ pc[t] = "done" /\ frame[t].op = "submit"
       /\ frame[t].classified # <<>>
       /\ frame[t].classified[1].compute_submits # <<>>
       /\ frame[t].classified[1].transfer_submits # <<>>
       /\ frame[t].callerArgs.pSubmits[1] = 1
       /\ frame[t].fence # VK_NULL_HANDLE
       /\ DOMAIN pipeline_cache_ # {}

NegotiateCall == last.call = "vkNegotiateLoaderLayerInterfaceVersion"

NegotiateSlots(s) ==
    <<s.pfnGetInstanceProcAddr, s.pfnGetDeviceProcAddr, s.pfnGetPhysicalDeviceProcAddr>>

\* C11: a negotiation record whose type tag is not the negotiation tag gets
\* VK_ERROR_INITIALIZATION_FAILED and comes back with its version and its three
\* slots as they were.
C11_WrongTagRejectedUntouched ==
    (NegotiateCall /\ last.structIn.sType # LAYER_NEGOTIATE_INTERFACE_STRUCT)
    => /\ last.result = VK_ERROR_INITIALIZATION_FAILED
       /\ last.structOut = last.structIn

\* A record with a foreign tag, asking for a supported version, with slots
\* already filled, was rejected.
C11_Witness ==
    /\ NegotiateCall
    /\ last.structIn.sType = "VK_STRUCTURE_TYPE_APPLICATION_INFO"
    /\ last.structIn.loaderLayerInterfaceVersion >= 2
    /\ NegotiateSlots(last.structIn) = <<StalePtr, StalePtr, StalePtr>>
    /\ last.result = VK_ERROR_INITIALIZATION_FAILED

\* C12: a correctly tagged record asking for version >= 2 gets VK_SUCCESS, the
\* instance and device slots set to this layer's two resolvers, the
\* physical-device slot null, and a version >= 2.
C12_NegotiateFillsResolvers ==
    (/\ NegotiateCall
     /\ last.structIn.sType = LAYER_NEGOTIATE_INTERFACE_STRUCT
     /\ last.structIn.loaderLayerInterfaceVersion >= 2)
    => /\ last.result = VK_SUCCESS
       /\ NegotiateSlots(last.structOut) =
             <<(<<"wrapper", "vkGetInstanceProcAddr">>),
               (<<"wrapper", "vkGetDeviceProcAddr">>), NullPtr>>
       /\ last.structOut.loaderLayerInterfaceVersion >= 2
       /\ last.structOut.sType = last.structIn.sType

\* A tagged record asking for a version above 2, with every slot filled
\* beforehand, was accepted.
C12_Witness ==
    /\ NegotiateCall
    /\ last.structIn.sType = LAYER_NEGOTIATE_INTERFACE_STRUCT
    /\ last.structIn.loaderLayerInterfaceVersion > 2
    /\ NegotiateSlots(last.structIn) = <<StalePtr, StalePtr, StalePtr>>
    /\ last.result = VK_SUCCESS

\* C19: for every correctly tagged record, whatever version it asks for, the
\* call writes 2 into the version field and returns VK_SUCCESS; asked for a
\* version below 2 it leaves the three slots as they were.
C19_NegotiateWritesVersion ==
    (NegotiateCall /\ last.structIn.sType = LAYER_NEGOTIATE_INTERFACE_STRUCT)
    => /\ last.result = VK_SUCCESS
       /\ last.structOut.loaderLayerInterfaceVersion = 2
       /\ last.structIn.loaderLayerInterfaceVersion < 2
          => NegotiateSlots(last.structOut) = NegotiateSlots(last.structIn)

\* A tagged record asking for version 1, with filled slots, came back with
\* version 2.
C19_Witness ==
    /\ NegotiateCall
    /\ last.structIn.sType = LAYER_NEGOTIATE_INTERFACE_STRUCT
    /\ last.structIn.loaderLayerInterfaceVersion = 1
    /\ NegotiateSlots(last.structIn) = <<StalePtr, NullPtr, StalePtr>>
    /\ last.structOut.loaderLayerInterfaceVersion = 2

LifecycleCalls == {"vkCreateInstance", "vkCreateDevice"}

\* The step is a lifecycle call made by the host.
LifecycleStep == last' # last /\ last'.call \in LifecycleCalls

\* The step belongs to the intercepted call of thread t.
CallStep(t) == frame'[t] # frame[t] \/ pc'[t] # pc[t]

\* The state the layer keeps between calls.
layerState ==
    <<g_layer_data, vkCreateInstance_original, vkCreateDevice_original,
      pipeline_cache_, device_context_, features_initialized_>>

\* C13: an intercepted operation whose next-layer function pointer was never
\* captured returns VK_ERROR_INITIALIZATION_FAILED without a forwarded call
\* and without changing the layer's state: the two lifecycle calls while
\* their *_original pointer is null, the four wrapper operations while no
\* device-level resolver is captured.
C13_UncapturedFailsFast ==
    [][/\ (LifecycleStep /\ vkCreateInstance_original = NullPtr
                         /\ vkCreateDevice_original = NullPtr)
          => /\ last'.result = VK_ERROR_INITIALIZATION_FAILED
             /\ last'.forwardedCalls = 0
             /\ UNCHANGED layerState
       /\ \A t \in Threads :
             (CallStep(t) /\ g_layer_data.get_device_proc_addr = NullPtr)
             => /\ pc'[t] = "done"
                /\ frame'[t].forwardedCalls = 0
                /\ frame'[t].ret = <<VK_ERROR_INITIALIZATION_FAILED>>
                /\ UNCHANGED layerState]_vars

StatusOf(op, value) == IF op = "alloc" THEN value[1].status ELSE value[1]

\* The forwarded call of thread t is back with a failure: known before the
\* step for a pipeline creation, with the step for the other two.
ForwardFailed(t) ==
    \/ /\ pc[t] \in SectionStates \cup {"returned"}
       /\ frame[t].result # <<VK_SUCCESS>>
    \/ /\ pc[t] = "forward" /\ pc'[t] = "done"
       /\ StatusOf(frame'[t].op, frame'[t].result) # VK_SUCCESS

\* C15: every intercepted operation returns the status of its one forwarded
\* call, and a call whose forwarded call failed changes nothing of the
\* layer's state: the only steps of a call that change it belong to a
\* pipeline creation whose forwarded call returned VK_SUCCESS.
C15_StatusVerbatimFailureLeavesState ==
    [][/\ LifecycleStep
          => /\ last'.forwardedCalls = 1 => last'.result = last'.nextResult
             /\ last'.forwardedCalls <= 1
             /\ UNCHANGED layerState
       /\ \A t \in Threads :
             CallStep(t)
             => /\ Returning(t)
                   => IF PipelineCall(t)
                      THEN /\ frame'[t].ret = frame[t].result
                           /\ frame[t].forwardedCalls = 1
                      ELSE /\ frame'[t].ret = frame'[t].result
                           /\ frame'[t].ret # <<>>
                           /\ frame'[t].forwardedCalls = 1
                /\ ForwardFailed(t) => UNCHANGED layerState
                /\ layerState' # layerState
                   => (PipelineCall(t) /\ pc[t] \in SectionStates
                       /\ frame[t].result = <<VK_SUCCESS>>)]_vars

\* With records in the store and the features on, a graphics creation has
\* returned the failure of its forwarded call and the store holds the
\* earlier records, no more.
C15_Witness ==
    /\ features_initialized_
    /\ pc["t1"] = "done"
    /\ frame["t1"].op = "gfx"
    /\ frame["t1"].ret = <<VK_ERROR_OUT_OF_DEVICE_MEMORY>>
    /\ ~frame["t1"].cached
    /\ DOMAIN pipeline_cache_ # {}
    /\ pipeline_cache_ = expected_store

\* C16: an intercepted entry point never runs inside its own forwarded call
\* and every invocation comes back: the call made through the name vkXxx
\* reaches the next layer, not this layer's exported vkXxx.
C16_ForwardsOnceNoReentry ==
    \A t \in Threads :
       /\ pc[t] # "diverged"
       /\ pc[t] = "forward" => frame[t].depth = 0

\* A graphics descriptor as the next layer reads it: the rasterization and
\* multisample structures it points to, <<>> for a null pointer.
DescriptorValue(d, mem) ==
    [rast |-> IF d.pRasterizationState = 0 THEN <<>>
              ELSE <<mem.rast[d.pRasterizationState]>>,
     ms |-> IF d.pMultisampleState = 0 THEN <<>>
            ELSE <<mem.ms[d.pMultisampleState]>>,
     stages |-> d.stages]

\* The transformation of one descriptor taken alone.
TransformedValue(v) ==
    [rast |-> IF v.rast = <<>> THEN <<>> ELSE <<OptimizeRasterizationState(v.rast[1])>>,
     ms |-> IF v.ms = <<>> THEN <<>> ELSE <<OptimizeMultisampleState(v.ms[1])>>,
     stages |-> v.stages]

\* C17: the graphics transformation works on a copy: what is forwarded for a
\* descriptor is the transformation of that descriptor's original content
\* alone, and once vkCreateGraphicsPipelines has returned, the caller's
\* descriptors and the structures they point to hold what they held before
\* the call.
C17_CallerDescriptorsUntouched ==
    \A t \in Threads :
       /\ (pc[t] = "forward" /\ frame[t].op = "gfx" /\ frame[t].optimized)
          => \A k \in 1..frame[t].createInfoCount :
                DescriptorValue(frame[t].fwd[1].pCreateInfos[k], frame[t].fwd[1].mem)
                = TransformedValue(DescriptorValue(frame[t].callerInfos[k],
                                                   frame[t].callerMem0))
       /\ (pc[t] = "done" /\ frame[t].op = "gfx") => frame[t].callerIntact

\* C18: a record once in the store stays there and its usage counter never
\* goes down, whatever calls follow, a creation that returns the same handle
\* value again included.
C18_RecordsKeptCountersGrow ==
    [][\A h \in DOMAIN pipeline_cache_ :
          /\ h \in DOMAIN pipeline_cache_'
          /\ pipeline_cache_'[h].usage_count >= pipeline_cache_[h].usage_count]_vars

\* What the host passed to the call thread t has just made.
CallerArguments(f) ==
    CASE f.op \in {"gfx", "comp"} -> [pCreateInfos |-> f.callerInfos, mem |-> f.callerMem0]
      [] f.op = "alloc" -> f.callerInfo0
      [] f.op = "submit" -> f.callerArgs

\* The host's call of thread t enters the layer with this step.
Entering(t) == CanStart(t) /\ pc'[t] = "forward"

\* C20: while features_initialized_ is false each of the four operations
\* forwards the caller's arguments as they are, returns the forwarded status
\* and leaves the store alone; the flag goes up only in a step that installs a
\* device context with two non-null handles and belongs to no intercepted
\* call, never goes down, and is up only with a device context present.
C20_PassThroughUntilInitialized ==
    [][/\ \A t \in Threads :
             (CallStep(t) /\ ~features_initialized_)
             => /\ Entering(t)
                   => /\ frame'[t].fwd = <<CallerArguments(frame'[t])>>
                      /\ IF frame'[t].op = "submit"
                         THEN frame'[t].classified = <<>>
                         ELSE ~frame'[t].optimized
                /\ (pc[t] = "forward" /\ pc'[t] = "forward")
                   => frame'[t].fwd = <<CallerArguments(frame'[t])>>
                /\ (Returning(t) /\ ~PipelineCall(t))
                   => frame'[t].ret = frame'[t].result /\ frame'[t].ret # <<>>
                /\ (Returning(t) /\ PipelineCall(t))
                   => frame'[t].ret = frame[t].result /\ frame'[t].callerIntact
                /\ pipeline_cache_' = pipeline_cache_
       /\ (~features_initialized_ /\ features_initialized_')
          => /\ device_context_' # <<>>
             /\ device_context_'[1].physical_device # VK_NULL_HANDLE
             /\ device_context_'[1].device # VK_NULL_HANDLE
             /\ \A t \in Threads : ~CallStep(t)
             /\ last' = last
       /\ features_initialized_ => features_initialized_'
       /\ features_initialized_' => device_context_' # <<>>]_vars

\* With the features still off, a graphics creation whose descriptors the
\* transformation would change has returned success and the store is empty.
C20_Witness ==
    /\ ~features_initialized_
    /\ device_context_ = <<>>
    /\ pc["t1"] = "done"
    /\ frame["t1"].op = "gfx"
    /\ frame["t1"].ret = <<VK_SUCCESS>>
    /\ frame["t1"].callerIntact
    /\ pipeline_cache_ = <<>>

====
